---- MODULE Spec2Model ----
(***************************************************************************)
(* Inventory batch ledger and FIFO allocation of the pharmacy server.      *)
(*                                                                         *)
(* The store holds MedicineBatch documents (batches), the StockMovement    *)
(* ledger (movements), the Dispensing / DirectDispensing records (records) *)
(* and one Requisition document (requisition).  Every request handler is a *)
(* process: it advances one database operation (one await) at a time, so   *)
(* two handlers interleave exactly where the event loop lets them.  A      *)
(* MedicineBatch document read by find() is a private copy; save() writes  *)
(* back the paths the handler modified, whatever the stored values are by  *)
(* then.                                                                   *)
(***************************************************************************)
EXTENDS Integers, Sequences, FiniteSets, TLC

VARIABLES batches, movements, records, requisition, now, calls, pc, local

vars == <<batches, movements, records, requisition, now, calls, pc, local>>

\* ------------------------------------------------------------------ bounds
MaxQty == 2
MaxCount == 3
MaxCalls == 2
MaxNow == 1
InitBatches == 2

Procs == {1, 2}
Medicines == {"m1", "m2"}
\* Clock readings are even and expiry dates odd: no request reads the clock
\* at the very instant a batch expires.  Expiry dates of the stock at the
\* start, and of later receipts:
InitExpiries == {1, 3}
Expiries == {5}

\* ------------------------------------------------------------------ helpers
Abs(x) == IF x < 0 THEN -x ELSE x

\* Mutant of Min: the deduction is not capped by the batch's quantity.
MinUncapped(a, b) == a

Min(a, b) == IF a < b THEN a ELSE b

RECURSIVE SumSeq(_)
SumSeq(s) == IF s = <<>> THEN 0 ELSE Head(s) + SumSeq(Tail(s))

\* Mutant of SortedByExpiry: the query result is left in creation order.
SortedByCreation(bs, S) ==
  {f \in [1..Cardinality(S) -> S] :
     \A i, j \in 1..Cardinality(S) : i < j => f[i] < f[j]}

\* All orders in which a query can return the batch ids of S: ascending by
\* expiryDate; the order of documents with equal expiryDate is not specified
\* by the sort, so every such order is possible.
SortedByExpiry(bs, S) ==
  {f \in [1..Cardinality(S) -> S] :
     /\ \A i, j \in 1..Cardinality(S) : i # j => f[i] # f[j]
     /\ \A i, j \in 1..Cardinality(S) :
          i < j => bs[f[i]].expiryDate <= bs[f[j]].expiryDate}

\* The private copy of a stored batch that a query hands to the handler.
Doc(bs, id) ==
  [id |-> id,
   quantityRemaining |-> bs[id].quantityRemaining,
   status |-> bs[id].status,
   expiryDate |-> bs[id].expiryDate]

\* Mutant of AllocFilter: the expiry date is not tested.
AllocFilterNoExpiry(bs, m, t) ==
  {i \in DOMAIN bs :
     /\ bs[i].medicine = m
     /\ bs[i].status = "active"
     /\ bs[i].quantityRemaining > 0}

\* Mutant of AllocFilter: status and quantity are not tested.
AllocFilterAnyStock(bs, m, t) ==
  {i \in DOMAIN bs :
     /\ bs[i].medicine = m
     /\ bs[i].expiryDate > t}

\* Mutant of AllocFilter: the medicine is not tested.
AllocFilterAnyMedicine(bs, m, t) ==
  {i \in DOMAIN bs :
     /\ bs[i].status = "active"
     /\ bs[i].quantityRemaining > 0
     /\ bs[i].expiryDate > t}

\* MedicineBatch.find({medicine, status:'active', quantityRemaining:{$gt:0},
\*                     expiryDate:{$gt:new Date()}})
AllocFilter(bs, m, t) ==
  {i \in DOMAIN bs :
     /\ bs[i].medicine = m
     /\ bs[i].status = "active"
     /\ bs[i].quantityRemaining > 0
     /\ bs[i].expiryDate > t}

\* The results of that query followed by .sort('expiryDate').
FindForAllocation(bs, m, t) ==
  {[k \in DOMAIN f |-> Doc(bs, f[k])] : f \in SortedByExpiry(bs, AllocFilter(bs, m, t))}

\* MedicineBatchSchema.pre('save'): the status the document carries after
\* the hook has run at time t.
PreSave(doc, t) ==
  IF doc.quantityRemaining <= 0 THEN [doc EXCEPT !.status = "depleted"]
  ELSE IF doc.expiryDate < t THEN [doc EXCEPT !.status = "expired"]
  ELSE doc

\* batch.save() of a document that was read as 'active': the update sets
\* quantityRemaining (modified by the caller) and sets status only when the
\* handler or the hook changed it.
SaveBatch(bs, doc, t) ==
  LET d == PreSave(doc, t) IN
  [bs EXCEPT ![d.id] =
     [@ EXCEPT !.quantityRemaining = d.quantityRemaining,
               !.status = IF d.status # "active" THEN d.status ELSE @]]

\* StockMovement document.
Movement(m, b, type, quantity, reason, ref) ==
  [medicine |-> m, batch |-> b, type |-> type, quantity |-> quantity,
   reason |-> reason, ref |-> ref]

\* ------------------------------------------------------------------ state
NoDocs == <<>>

Idle ==
  [site |-> "none", call |-> 0, medicine |-> "none", requested |-> 0,
   remaining |-> 0, docs |-> NoDocs, idx |-> 0, take |-> 0, actor |-> FALSE,
   moves |-> 0, difference |-> 0, item |-> 0, newStatus |-> "none",
   reqdoc |-> NoDocs, code |-> 0, outcome |-> "none",
   quantity |-> 0, pre |-> NoDocs, mark |-> 0, at |-> 0]

\* A batch as receiveItem stores it for a positive quantity.
ReceivedBatch(m, e, q) ==
  [medicine |-> m, expiryDate |-> e, quantityReceived |-> q,
   quantityRemaining |-> q, status |-> "active"]

\* The stock at the start: batches of m1 received earlier, none touched yet.
InitStocks ==
  UNION {[1..n -> {ReceivedBatch("m1", e, q) : e \in InitExpiries, q \in 1..MaxQty}] :
         n \in 0..InitBatches}

\* The requisition createRequisition stores: every item 'Pending'.
InitRequisition ==
  [status |-> "Submitted",
   items |-> <<[medicine |-> "m1", requestedQty |-> MaxQty, issuedQty |-> 0, status |-> "Pending"],
               [medicine |-> "m2", requestedQty |-> MaxQty, issuedQty |-> 0, status |-> "Pending"]>>]

Init ==
  /\ batches \in InitStocks
  /\ movements = [i \in DOMAIN batches |->
                    Movement(batches[i].medicine, i, "IN", batches[i].quantityReceived, "Received", 0)]
  /\ records = <<>>
  /\ requisition = InitRequisition
  /\ now = 0
  /\ calls = 0
  /\ pc = [p \in Procs |-> "idle"]
  /\ local = [p \in Procs |-> Idle]


\* ------------------------------------------------------------------ requests
\* Process p takes the next request, call number calls + 1.  Process 2 is
\* used only while process 1 is busy (the two are interchangeable).
Begin(p) ==
  /\ pc[p] = "idle"
  /\ calls < MaxCalls
  /\ p = 2 => pc[1] # "idle"
  /\ calls' = calls + 1

\* The handler's locals at its first statement.  pre, mark and at remember
\* the store and the time the handler started from (history, read by the
\* properties only); quantity is the quantity as the request gave it.
Enter(site, quantity) ==
  [Idle EXCEPT !.site = site, !.call = calls + 1, !.quantity = quantity,
               !.pre = batches, !.mark = Len(movements), !.at = now]

\* res.status(code).json(...): the handler has ended.  Its locals stay
\* readable (code # 0) until the process takes its next request.
Respond(l, code, outcome) ==
  [l EXCEPT !.code = code, !.outcome = outcome,
            !.docs = NoDocs, !.idx = 0, !.take = 0, !.reqdoc = NoDocs]

Quantities == (-1)..(MaxQty + 1)

\* What allocation and audit requests name: the stocked medicine m1, or a
\* medicine the catalog does not have (m2 is stocked by receipts and issued
\* by the requisition's second item).
MedicineRefs == {"m1", "unknown"}

Requested == {"m1"}

\* ---- dispensingController.js
\* createDispensingRecord, up to the batch query.  valid: the body passes
\* the Dispensing schema.
DispenseBegin(p) ==
  /\ Begin(p)
  /\ \E m \in MedicineRefs, quantity \in Quantities, actor \in BOOLEAN, valid \in BOOLEAN :
       LET l0 == Enter("dispensing", quantity) IN
       /\ m \notin Medicines => quantity = 1
       /\ IF ~valid
          THEN /\ records' = records
               /\ local' = [local EXCEPT ![p] = Respond(l0, 400, "error")]
               /\ pc' = [pc EXCEPT ![p] = "idle"]
          ELSE
            /\ records' = Append(records, [site |-> "dispensing", ref |-> calls + 1,
                                           medicine |-> m, quantity |-> quantity])
            /\ IF m \in Medicines /\ quantity > 0
               THEN \E found \in FindForAllocation(batches, m, now) :
                      LET l1 == [l0 EXCEPT !.medicine = m, !.requested = Abs(quantity),
                                           !.remaining = Abs(quantity)] IN
                      IF Len(found) = 0
                      THEN /\ local' = [local EXCEPT ![p] = Respond(l1, 201, "noBatches")]
                           /\ pc' = [pc EXCEPT ![p] = "idle"]
                      ELSE /\ local' = [local EXCEPT ![p] =
                                          [l1 EXCEPT !.actor = actor, !.docs = found, !.idx = 1]]
                           /\ pc' = [pc EXCEPT ![p] = "dispenseSave"]
               ELSE /\ local' = [local EXCEPT ![p] =
                                   Respond(l0, 201, IF m \in Medicines THEN "noQuantity" ELSE "noMedicine")]
                    /\ pc' = [pc EXCEPT ![p] = "idle"]
  /\ UNCHANGED <<batches, movements, requisition, now>>

\* The body of the dispensing loop up to batch.save(): the document after
\* deducting min(remaining, quantityRemaining).
DispenseDeduct(doc, remaining) ==
  LET left == doc.quantityRemaining - Min(remaining, doc.quantityRemaining) IN
  IF left <= 0
  THEN [doc EXCEPT !.quantityRemaining = 0, !.status = "depleted"]
  ELSE [doc EXCEPT !.quantityRemaining = left]

DispenseSave(p) ==
  /\ pc[p] = "dispenseSave"
  /\ LET l == local[p]
         doc == l.docs[l.idx] IN
       /\ batches' = SaveBatch(batches, DispenseDeduct(doc, l.remaining), now)
       /\ local' = [local EXCEPT ![p] = [l EXCEPT !.take = Min(l.remaining, doc.quantityRemaining)]]
       /\ pc' = [pc EXCEPT ![p] = "dispenseMove"]
  /\ UNCHANGED <<movements, records, requisition, now, calls>>

\* Mutant of DispenseMovement: the entry carries the quantity still to
\* dispense instead of the quantity deducted from the batch.
DispenseMovementOfRequest(l, doc) ==
  Movement(l.medicine, doc.id, "OUT", l.remaining, "Prescription dispensing", l.call)

\* The OUT movement of the dispensing loop for document doc.
DispenseMovement(l, doc) ==
  Movement(l.medicine, doc.id, "OUT", l.take, "Prescription dispensing", l.call)

\* StockMovement.create for the batch just saved, then the loop's exit tests
\* and the response.
DispenseMove(p) ==
  /\ pc[p] = "dispenseMove"
  /\ LET l == local[p]
         doc == l.docs[l.idx]
         left == l.remaining - l.take IN
       IF ~l.actor
       THEN \* performedBy is required and undefined: the create throws
            /\ movements' = movements
            /\ local' = [local EXCEPT ![p] = Respond(l, 400, "error")]
            /\ pc' = [pc EXCEPT ![p] = "idle"]
       ELSE
            /\ movements' = Append(movements, DispenseMovement(l, doc))
            /\ IF l.idx < Len(l.docs) /\ left > 0
               THEN /\ local' = [local EXCEPT ![p] =
                                   [l EXCEPT !.remaining = left, !.moves = @ + 1, !.idx = @ + 1]]
                    /\ pc' = [pc EXCEPT ![p] = "dispenseSave"]
               ELSE /\ local' = [local EXCEPT ![p] =
                                   Respond([l EXCEPT !.remaining = left, !.moves = @ + 1],
                                           201, IF left > 0 THEN "partial" ELSE "ok")]
                    /\ pc' = [pc EXCEPT ![p] = "idle"]
  /\ UNCHANGED <<batches, records, requisition, now, calls>>

\* ---- directDispensingController.js
\* Math.abs(item.quantity || item.qty || 1), item.qty absent.
DirectQuantity(quantity) == IF quantity = 0 THEN 1 ELSE Abs(quantity)

\* createDirectDispensingRecord with one item in medicines, up to the batch
\* query.  valid: the body passes the DirectDispensing schema (clientName and
\* totalCost present).
DirectBegin(p) ==
  /\ Begin(p)
  /\ \E m \in MedicineRefs, quantity \in Quantities, actor \in BOOLEAN, valid \in BOOLEAN :
       LET l0 == Enter("direct", quantity) IN
       /\ m \notin Medicines => quantity = 1
       /\ IF ~valid
          THEN /\ records' = records
               /\ local' = [local EXCEPT ![p] = Respond(l0, 400, "error")]
               /\ pc' = [pc EXCEPT ![p] = "idle"]
          ELSE
            /\ records' = Append(records, [site |-> "direct", ref |-> calls + 1,
                                           medicine |-> m, quantity |-> DirectQuantity(quantity)])
            /\ IF m \in Medicines
               THEN \E found \in FindForAllocation(batches, m, now) :
                      LET l1 == [l0 EXCEPT !.medicine = m, !.requested = DirectQuantity(quantity),
                                           !.remaining = DirectQuantity(quantity)] IN
                      IF Len(found) = 0
                      THEN /\ local' = [local EXCEPT ![p] = Respond(l1, 201, "ok")]
                           /\ pc' = [pc EXCEPT ![p] = "idle"]
                      ELSE /\ local' = [local EXCEPT ![p] =
                                          [l1 EXCEPT !.actor = actor, !.docs = found, !.idx = 1]]
                           /\ pc' = [pc EXCEPT ![p] = "directSave"]
               ELSE /\ local' = [local EXCEPT ![p] = Respond(l0, 201, "ok")]
                    /\ pc' = [pc EXCEPT ![p] = "idle"]
  /\ UNCHANGED <<batches, movements, requisition, now>>

\* The body of the direct-sale loop up to batch.save().
DirectDeduct(doc, remaining) ==
  LET left == doc.quantityRemaining - Min(remaining, doc.quantityRemaining) IN
  IF left <= 0
  THEN [doc EXCEPT !.quantityRemaining = 0, !.status = "depleted"]
  ELSE [doc EXCEPT !.quantityRemaining = left]

\* batch.save(), batchesUpdated.push, remainingToDispense -= deducted.
DirectSave(p) ==
  /\ pc[p] = "directSave"
  /\ LET l == local[p]
         doc == l.docs[l.idx]
         take == Min(l.remaining, doc.quantityRemaining) IN
       /\ batches' = SaveBatch(batches, DirectDeduct(doc, l.remaining), now)
       /\ local' = [local EXCEPT ![p] = [l EXCEPT !.take = take, !.remaining = @ - take]]
       /\ pc' = [pc EXCEPT ![p] = "directMove"]
  /\ UNCHANGED <<movements, records, requisition, now, calls>>

\* The OUT movement of the direct-sale loop for document doc.
DirectMovement(l, doc) ==
  Movement(l.medicine, doc.id, "OUT", l.take, "Direct dispensing", l.call)

\* StockMovement.create for the batch just saved, the loop's exit tests and
\* the response (always the same success body).
DirectMove(p) ==
  /\ pc[p] = "directMove"
  /\ LET l == local[p]
         doc == l.docs[l.idx] IN
       IF ~l.actor
       THEN /\ movements' = movements
            /\ local' = [local EXCEPT ![p] = Respond(l, 400, "error")]
            /\ pc' = [pc EXCEPT ![p] = "idle"]
       ELSE
            /\ movements' = Append(movements, DirectMovement(l, doc))
            /\ IF l.idx < Len(l.docs) /\ l.remaining > 0
               THEN /\ local' = [local EXCEPT ![p] = [l EXCEPT !.moves = @ + 1, !.idx = @ + 1]]
                    /\ pc' = [pc EXCEPT ![p] = "directSave"]
               ELSE /\ local' = [local EXCEPT ![p] = Respond([l EXCEPT !.moves = @ + 1], 201, "ok")]
                    /\ pc' = [pc EXCEPT ![p] = "idle"]
  /\ UNCHANGED <<batches, records, requisition, now, calls>>

\* ---- requisitionController.js
NoRequisition == [status |-> "none", items |-> <<>>]

\* updateRequisitionItem: Requisition.findById and requisition.items.id; the
\* request asks for 'Issued' with an issuedQty, or for 'Rejected'.
ReqFind(p) ==
  /\ Begin(p)
  /\ \E item \in 0..Len(requisition.items), status \in {"Issued", "Rejected"}, issuedQty \in Quantities :
       LET l0 == Enter("requisition", IF status = "Issued" THEN issuedQty ELSE 0) IN
       /\ status = "Rejected" => issuedQty = 0
       /\ item = 0 => status = "Rejected"
       /\ IF item = 0
          THEN /\ local' = [local EXCEPT ![p] = Respond(l0, 404, "notFound")]
               /\ pc' = [pc EXCEPT ![p] = "idle"]
          ELSE LET qty == IF status = "Issued" THEN issuedQty ELSE requisition.items[item].issuedQty
                   l1 == [l0 EXCEPT !.item = item, !.newStatus = status, !.requested = qty,
                                    !.remaining = qty, !.reqdoc = requisition,
                                    !.medicine = requisition.items[item].medicine] IN
               /\ local' = [local EXCEPT ![p] = l1]
               /\ pc' = [pc EXCEPT ![p] =
                            IF status = "Issued" /\ qty > 0 THEN "reqBatches" ELSE "reqStore"]
  /\ UNCHANGED <<batches, movements, records, requisition, now>>

\* The batch query of the issuing branch; with no batch the loop is skipped
\* and the shortfall test answers at once.
ReqBatches(p) ==
  /\ pc[p] = "reqBatches"
  /\ \E found \in FindForAllocation(batches, local[p].medicine, now) :
       IF Len(found) = 0
       THEN /\ local' = [local EXCEPT ![p] =
                            Respond([@ EXCEPT !.pre = batches, !.at = now], 400, "insufficient")]
            /\ pc' = [pc EXCEPT ![p] = "idle"]
       ELSE /\ local' = [local EXCEPT ![p] = [@ EXCEPT !.docs = found, !.idx = 1,
                                                       !.pre = batches, !.at = now]]
            /\ pc' = [pc EXCEPT ![p] = "reqSave"]
  /\ UNCHANGED <<batches, movements, records, requisition, now, calls>>

\* The body of the issuing loop up to batch.save().
ReqDeduct(doc, remaining) ==
  LET left == doc.quantityRemaining - Min(remaining, doc.quantityRemaining) IN
  IF left = 0
  THEN [doc EXCEPT !.quantityRemaining = left, !.status = "depleted"]
  ELSE [doc EXCEPT !.quantityRemaining = left]

ReqSave(p) ==
  /\ pc[p] = "reqSave"
  /\ LET l == local[p]
         doc == l.docs[l.idx] IN
       /\ batches' = SaveBatch(batches, ReqDeduct(doc, l.remaining), now)
       /\ local' = [local EXCEPT ![p] = [l EXCEPT !.take = Min(l.remaining, doc.quantityRemaining)]]
       /\ pc' = [pc EXCEPT ![p] = "reqMove"]
  /\ UNCHANGED <<movements, records, requisition, now, calls>>

\* The OUT movement of the issuing loop for document doc.
ReqMovement(l, doc) ==
  Movement(l.medicine, doc.id, "OUT", l.take, "Issued via requisition", l.call)

\* StockMovement.create (performedBy req.user.id, the route is protected),
\* the loop's exit tests and the 'Insufficient stock' answer.
ReqMove(p) ==
  /\ pc[p] = "reqMove"
  /\ LET l == local[p]
         doc == l.docs[l.idx]
         left == l.remaining - l.take IN
       /\ movements' = Append(movements, ReqMovement(l, doc))
       /\ IF l.idx < Len(l.docs) /\ left > 0
          THEN /\ local' = [local EXCEPT ![p] =
                              [l EXCEPT !.remaining = left, !.moves = @ + 1, !.idx = @ + 1]]
               /\ pc' = [pc EXCEPT ![p] = "reqSave"]
          ELSE IF left > 0
          THEN /\ local' = [local EXCEPT ![p] =
                              Respond([l EXCEPT !.remaining = left, !.moves = @ + 1], 400, "insufficient")]
               /\ pc' = [pc EXCEPT ![p] = "idle"]
          ELSE /\ local' = [local EXCEPT ![p] = [l EXCEPT !.remaining = left, !.moves = @ + 1]]
               /\ pc' = [pc EXCEPT ![p] = "reqStore"]
  /\ UNCHANGED <<batches, records, requisition, now, calls>>

\* RequisitionSchema.methods.updateStatus
UpdateStatus(doc) ==
  LET S == {doc.items[i].status : i \in DOMAIN doc.items} IN
  IF S = {"Issued"} THEN [doc EXCEPT !.status = "Completed"]
  ELSE IF S = {"Rejected"} THEN [doc EXCEPT !.status = "Cancelled"]
  ELSE IF "Issued" \in S THEN [doc EXCEPT !.status = "In Progress"]
  ELSE doc

\* The handler's copy of the requisition after "Update item" and
\* updateStatus().
ReqEdited(l) ==
  UpdateStatus([l.reqdoc EXCEPT !.items[l.item].status = l.newStatus,
                                !.items[l.item].issuedQty = l.requested])

\* requisition.save(): the paths that differ from what the handler read are
\* set; then the answer.
ReqStore(p) ==
  /\ pc[p] = "reqStore"
  /\ LET l == local[p]
         old == l.reqdoc
         new == ReqEdited(l)
         i == l.item IN
       /\ requisition' =
            [requisition EXCEPT
               !.status = IF new.status # old.status THEN new.status ELSE @,
               !.items[i].status =
                  IF new.items[i].status # old.items[i].status THEN new.items[i].status ELSE @,
               !.items[i].issuedQty =
                  IF new.items[i].issuedQty # old.items[i].issuedQty THEN new.items[i].issuedQty ELSE @]
       /\ local' = [local EXCEPT ![p] = Respond(l, 200, "ok")]
       /\ pc' = [pc EXCEPT ![p] = "idle"]
  /\ UNCHANGED <<batches, movements, records, now, calls>>

\* ---- stockController.js (updateStockAudit)
\* MedicineBatch.find({medicine, status:'active', expiryDate:{$gt:new Date()}})
AuditFilter(bs, m, t) ==
  {i \in DOMAIN bs :
     /\ bs[i].medicine = m
     /\ bs[i].status = "active"
     /\ bs[i].expiryDate > t}

FindForAudit(bs, m, t) ==
  {[k \in DOMAIN f |-> Doc(bs, f[k])] : f \in SortedByExpiry(bs, AuditFilter(bs, m, t))}

\* batches.reduce((sum, b) => sum + b.quantityRemaining, 0)
CurrentTotal(docs) == SumSeq([k \in DOMAIN docs |-> docs[k].quantityRemaining])

ActualCounts == (-1)..MaxCount

\* Mutant of NeedsAdjustment: the difference is not tested.
NeedsAdjustmentAlways(difference, docs) == Len(docs) > 0

\* if (difference !== 0) { if (batches.length > 0) { ... } }
NeedsAdjustment(difference, docs) == difference # 0 /\ Len(docs) > 0

\* updateStockAudit up to the save of the oldest batch: the query, the
\* difference, and the answer when there is nothing to adjust.
AuditBegin(p) ==
  /\ Begin(p)
  /\ \E m \in Requested, actualCount \in ActualCounts :
     \E found \in FindForAudit(batches, m, now) :
       LET difference == actualCount - CurrentTotal(found)
           l1 == [Enter("audit", actualCount) EXCEPT !.medicine = m, !.requested = actualCount,
                                        !.difference = difference, !.docs = found] IN
       IF NeedsAdjustment(difference, found)
       THEN /\ local' = [local EXCEPT ![p] = [l1 EXCEPT !.idx = 1]]
            /\ pc' = [pc EXCEPT ![p] = "auditSave"]
       ELSE /\ local' = [local EXCEPT ![p] = Respond(l1, 200, "ok")]
            /\ pc' = [pc EXCEPT ![p] = "idle"]
  /\ UNCHANGED <<batches, movements, records, requisition, now>>

\* Mutant of AuditAdjust: the result is not clamped at 0.
AuditAdjustUnclamped(doc, difference) ==
  [doc EXCEPT !.quantityRemaining = doc.quantityRemaining + difference]

\* Mutant of AuditAdjust: the difference is applied with the wrong sign.
AuditAdjustReversed(doc, difference) ==
  LET q == doc.quantityRemaining - difference IN
  IF q <= 0
  THEN [doc EXCEPT !.quantityRemaining = 0, !.status = "depleted"]
  ELSE [doc EXCEPT !.quantityRemaining = q]

\* oldestBatch.quantityRemaining += difference, clamped at 0.
AuditAdjust(doc, difference) ==
  LET q == doc.quantityRemaining + difference IN
  IF q <= 0
  THEN [doc EXCEPT !.quantityRemaining = 0, !.status = "depleted"]
  ELSE [doc EXCEPT !.quantityRemaining = q]

AuditSave(p) ==
  /\ pc[p] = "auditSave"
  /\ LET l == local[p] IN
       /\ batches' = SaveBatch(batches, AuditAdjust(l.docs[1], l.difference), now)
       /\ pc' = [pc EXCEPT ![p] = "auditMove"]
  /\ UNCHANGED <<movements, records, requisition, now, calls, local>>

\* Mutant of AuditMove: the adjustment is written over the newest ledger
\* entry instead of being created as a new one.
AuditMoveRewrites(p) ==
  /\ pc[p] = "auditMove"
  /\ LET l == local[p] IN
       /\ movements' = [movements EXCEPT ![Len(movements)] =
            Movement(l.medicine, l.docs[1].id, "ADJUSTMENT", Abs(l.difference),
                     IF l.difference > 0 THEN "Added" ELSE "Removed", l.call)]
       /\ local' = [local EXCEPT ![p] = Respond([l EXCEPT !.moves = 1], 200, "ok")]
       /\ pc' = [pc EXCEPT ![p] = "idle"]
  /\ UNCHANGED <<batches, records, requisition, now, calls>>

\* The ADJUSTMENT movement and the answer.
AuditMove(p) ==
  /\ pc[p] = "auditMove"
  /\ LET l == local[p] IN
       /\ movements' = Append(movements,
            Movement(l.medicine, l.docs[1].id, "ADJUSTMENT", Abs(l.difference),
                     IF l.difference > 0 THEN "Added" ELSE "Removed", l.call))
       /\ local' = [local EXCEPT ![p] = Respond([l EXCEPT !.moves = 1], 200, "ok")]
       /\ pc' = [pc EXCEPT ![p] = "idle"]
  /\ UNCHANGED <<batches, records, requisition, now, calls>>

\* ---- itemReceivingController.js (receiveItem)
ReceiveQtys == (-1)..MaxQty

\* A new MedicineBatch document after the pre('save') hook.
NewBatch(m, e, q, t) ==
  [medicine |-> m, expiryDate |-> e, quantityReceived |-> q, quantityRemaining |-> q,
   status |-> IF q <= 0 THEN "depleted" ELSE IF e < t THEN "expired" ELSE "active"]

\* receiveItem up to MedicineBatch.create; po: the purchase order exists.
ReceiveBegin(p) ==
  /\ Begin(p)
  /\ \E po \in BOOLEAN, m \in Medicines, e \in Expiries, q \in ReceiveQtys :
       LET l0 == Enter("receive", q) IN
       IF ~po
       THEN /\ batches' = batches
            /\ local' = [local EXCEPT ![p] = Respond(l0, 404, "notFound")]
            /\ pc' = [pc EXCEPT ![p] = "idle"]
       ELSE /\ batches' = Append(batches, NewBatch(m, e, q, now))
            /\ local' = [local EXCEPT ![p] =
                            [l0 EXCEPT !.medicine = m, !.requested = q, !.idx = Len(batches) + 1]]
            /\ pc' = [pc EXCEPT ![p] = "receiveMove"]
  /\ UNCHANGED <<movements, records, requisition, now>>

\* The IN movement and the answer.
ReceiveMove(p) ==
  /\ pc[p] = "receiveMove"
  /\ LET l == local[p] IN
       /\ movements' = Append(movements,
            Movement(l.medicine, l.idx, "IN", l.requested, "Received", l.call))
       /\ local' = [local EXCEPT ![p] = Respond([l EXCEPT !.moves = 1], 201, "ok")]
       /\ pc' = [pc EXCEPT ![p] = "idle"]
  /\ UNCHANGED <<batches, records, requisition, now, calls>>

\* ------------------------------------------------------------------ system
\* Time passes (new Date() grows).
Tick ==
  /\ now < 2 * MaxNow
  /\ now' = now + 2
  /\ UNCHANGED <<batches, movements, records, requisition, calls, pc, local>>

Step(p) ==
  \/ DispenseBegin(p)
  \/ DispenseSave(p)
  \/ DispenseMove(p)
  \/ DirectBegin(p)
  \/ DirectSave(p)
  \/ DirectMove(p)
  \/ ReqFind(p)
  \/ ReqBatches(p)
  \/ ReqSave(p)
  \/ ReqMove(p)
  \/ ReqStore(p)
  \/ AuditBegin(p)
  \/ AuditSave(p)
  \/ AuditMove(p)
  \/ ReceiveBegin(p)
  \/ ReceiveMove(p)

\* Request handlers interleave at their database operations.
Next ==
  \/ \E p \in Procs : Step(p)
  \/ Tick

Spec == Init /\ [][Next]_vars

\* One request at a time: every call runs in isolation.
NextSeq ==
  \/ Step(1)
  \/ Tick

SpecSeq == Init /\ [][NextSeq]_vars

\* Allocation and receiving only: the handlers other than the stock audit.
StepAlloc(p) ==
  \/ DispenseBegin(p)
  \/ DispenseSave(p)
  \/ DispenseMove(p)
  \/ DirectBegin(p)
  \/ DirectSave(p)
  \/ DirectMove(p)
  \/ ReqFind(p)
  \/ ReqBatches(p)
  \/ ReqSave(p)
  \/ ReqMove(p)
  \/ ReqStore(p)
  \/ ReceiveBegin(p)
  \/ ReceiveMove(p)

NextAlloc ==
  \/ \E p \in Procs : StepAlloc(p)
  \/ Tick

SpecAlloc == Init /\ [][NextAlloc]_vars

\* ---- requisitionController.js (completeRequisition, cancelRequisition)
\* completeRequisition up to requisition.save(); exists: findById finds it.
CompleteFind(p) ==
  /\ Begin(p)
  /\ \E exists \in BOOLEAN :
       LET l0 == Enter("complete", 0) IN
       IF ~exists
       THEN /\ local' = [local EXCEPT ![p] = Respond(l0, 404, "notFound")]
            /\ pc' = [pc EXCEPT ![p] = "idle"]
       ELSE /\ local' = [local EXCEPT ![p] = [l0 EXCEPT !.reqdoc = requisition]]
            /\ pc' = [pc EXCEPT ![p] = "completeSave"]
  /\ UNCHANGED <<batches, movements, records, requisition, now>>

\* requisition.status = 'Completed'; requisition.save(); the answer.
CompleteSave(p) ==
  /\ pc[p] = "completeSave"
  /\ requisition' = [requisition EXCEPT !.status = "Completed"]
  /\ local' = [local EXCEPT ![p] = Respond(local[p], 200, "ok")]
  /\ pc' = [pc EXCEPT ![p] = "idle"]
  /\ UNCHANGED <<batches, movements, records, now, calls>>

\* cancelRequisition up to requisition.save(): a requisition read as
\* 'Completed' is refused.
CancelFind(p) ==
  /\ Begin(p)
  /\ \E exists \in BOOLEAN :
       LET l0 == Enter("cancel", 0) IN
       IF ~exists
       THEN /\ local' = [local EXCEPT ![p] = Respond(l0, 404, "notFound")]
            /\ pc' = [pc EXCEPT ![p] = "idle"]
       ELSE IF requisition.status = "Completed"
       THEN /\ local' = [local EXCEPT ![p] = Respond(l0, 400, "completed")]
            /\ pc' = [pc EXCEPT ![p] = "idle"]
       ELSE /\ local' = [local EXCEPT ![p] = [l0 EXCEPT !.reqdoc = requisition]]
            /\ pc' = [pc EXCEPT ![p] = "cancelSave"]
  /\ UNCHANGED <<batches, movements, records, requisition, now>>

\* requisition.status = 'Cancelled'; requisition.save(); the answer.
CancelSave(p) ==
  /\ pc[p] = "cancelSave"
  /\ requisition' = [requisition EXCEPT !.status = "Cancelled"]
  /\ local' = [local EXCEPT ![p] = Respond(local[p], 200, "ok")]
  /\ pc' = [pc EXCEPT ![p] = "idle"]
  /\ UNCHANGED <<batches, movements, records, now, calls>>

\* A requisition created with a single item.
SingleItemRequisition ==
  [status |-> "Submitted",
   items |-> <<[medicine |-> "m1", requestedQty |-> MaxQty, issuedQty |-> 0, status |-> "Pending"]>>]

InitReq ==
  /\ batches \in InitStocks
  /\ movements = [i \in DOMAIN batches |->
                    Movement(batches[i].medicine, i, "IN", batches[i].quantityReceived, "Received", 0)]
  /\ records = <<>>
  /\ requisition = SingleItemRequisition
  /\ now = 0
  /\ calls = 0
  /\ pc = [p \in Procs |-> "idle"]
  /\ local = [p \in Procs |-> Idle]

\* The requisition handlers, one request at a time.
NextReq ==
  \/ ReqFind(1)
  \/ ReqBatches(1)
  \/ ReqSave(1)
  \/ ReqMove(1)
  \/ ReqStore(1)
  \/ CompleteFind(1)
  \/ CompleteSave(1)
  \/ CancelFind(1)
  \/ CancelSave(1)
  \/ Tick

SpecReq == InitReq /\ [][NextReq]_vars

\* ------------------------------------------------------------------ properties
AllocSites == {"dispensing", "direct", "requisition"}

\* No handler is between two of its database operations.
Quiet == \A p \in Procs : pc[p] = "idle"

\* The last request of process p has been answered.
Ended(p) == pc[p] = "idle" /\ local[p].code # 0

\* The batches of medicine m an allocation may deduct from at time t.
EligibleIn(bs, m, t) ==
  {i \in DOMAIN bs : /\ bs[i].medicine = m
                     /\ bs[i].status = "active"
                     /\ bs[i].quantityRemaining > 0
                     /\ bs[i].expiryDate > t}

\* The ledger entries written since the last request of process p started.
NewMoves(p) == SubSeq(movements, local[p].mark + 1, Len(movements))

\* The batches whose quantity differs from what that request started from.
Changed(p) ==
  {i \in DOMAIN local[p].pre :
     batches[i].quantityRemaining # local[p].pre[i].quantityRemaining}

\* Units an entry takes out of its batch: OUT and downward ADJUSTMENT count
\* as removals, upward ADJUSTMENT as an addition, IN as nothing.
Signed(mv) ==
  IF mv.type = "OUT" THEN mv.quantity
  ELSE IF mv.type = "ADJUSTMENT" /\ mv.reason = "Removed" THEN mv.quantity
  ELSE IF mv.type = "ADJUSTMENT" /\ mv.reason = "Added" THEN 0 - mv.quantity
  ELSE 0

LedgerRemoved(i) ==
  SumSeq([k \in DOMAIN movements |->
            IF movements[k].batch = i THEN Signed(movements[k]) ELSE 0])

\* The OUT quantity the calls in refs recorded against batch b.
OutSum(b, refs) ==
  SumSeq([k \in DOMAIN movements |->
            IF /\ movements[k].batch = b
               /\ movements[k].type = "OUT"
               /\ movements[k].ref \in refs
            THEN movements[k].quantity ELSE 0])

\* C1: no negative stock -- in every reachable state every batch has
\* 0 <= quantityRemaining <= quantityReceived.
C1_NoNegativeStock ==
  \A i \in DOMAIN batches :
    /\ 0 <= batches[i].quantityRemaining
    /\ batches[i].quantityRemaining <= batches[i].quantityReceived

\* C2: ledger completeness -- whenever no handler is mid-way, for every batch
\* quantityReceived - quantityRemaining equals the signed sum of the ledger
\* entries other than IN that reference the batch.
C2_LedgerComplete ==
  Quiet =>
    \A i \in DOMAIN batches :
      batches[i].quantityReceived - batches[i].quantityRemaining = LedgerRemoved(i)

\* C3: atomic conditional deduct -- when two allocations run concurrently and
\* both read batch b at the same quantityRemaining (before either wrote it),
\* the OUT quantities the two record against b never sum to more than that
\* quantity.
C3_AtomicDeduct ==
  \A b \in DOMAIN batches :
    ( /\ \A p \in Procs :
           /\ local[p].site \in AllocSites
           /\ b \in EligibleIn(local[p].pre, local[p].medicine, local[p].at)
      /\ local[1].pre[b].quantityRemaining = local[2].pre[b].quantityRemaining )
    => OutSum(b, {local[1].call, local[2].call}) <= local[1].pre[b].quantityRemaining

\* The quantity bs holds in the batches of S.
TotalIn(bs, S) ==
  SumSeq([i \in DOMAIN bs |-> IF i \in S THEN bs[i].quantityRemaining ELSE 0])

\* What the allocation of process 1 could deduct from when it queried.
Eligible1 == EligibleIn(local[1].pre, local[1].medicine, local[1].at)

\* Those of them with the earliest expiry date.
Earliest1 ==
  {i \in Eligible1 :
     \A j \in Eligible1 : local[1].pre[i].expiryDate <= local[1].pre[j].expiryDate}

\* The request of process 1 is an allocation request: a dispensing, a direct
\* sale line, or the issuing of a requisition item.
Allocating1 ==
  /\ local[1].site \in AllocSites
  /\ local[1].site = "requisition" => local[1].newStatus = "Issued"

\* The last request of process 1 was an allocation that ran to its answer
\* (its ledger writes were accepted).
Allocated1 ==
  /\ Ended(1)
  /\ Allocating1
  /\ local[1].outcome # "error"

\* C4: FIFO by expiry -- in an allocation run in isolation a batch is deducted
\* from only if every eligible batch of the medicine with a strictly earlier
\* expiry date has been brought to 0 by the call; and when the requested
\* amount is at most the remaining quantity of the earliest-expiring eligible
\* batch, only that batch changes.
C4_FifoByExpiry ==
  Allocating1 =>
    /\ \A i \in Changed(1) :
         \A j \in Eligible1 :
           local[1].pre[j].expiryDate < local[1].pre[i].expiryDate
             => batches[j].quantityRemaining = 0
    /\ (\A j \in Earliest1 : local[1].requested <= local[1].pre[j].quantityRemaining)
         => /\ Changed(1) \subseteq Earliest1
            /\ Cardinality(Changed(1)) <= 1

\* C4 witness: an allocation has deducted from two batches, the one created
\* later expiring first.
C4_Witness ==
  /\ Allocated1
  /\ \E i, j \in Changed(1) :
       i < j /\ local[1].pre[j].expiryDate < local[1].pre[i].expiryDate

C7_ShortfallIsData ==
  LET l == local[1] IN
  (Allocated1 /\ l.requested > 0 /\ l.remaining > 0) =>
    /\ l.code \in {200, 201}
    /\ l.outcome \in {"partial", "noBatches"}

\* C8: an invalid allocation request has no side effects -- at each of the
\* three call sites a request for a quantity <= 0 is rejected, changes no
\* batch, writes no ledger entry and persists no other record.
C8_InvalidRequestNoEffect ==
  LET l == local[1] IN
  (Ended(1) /\ Allocating1 /\ l.quantity <= 0) =>
    /\ l.code >= 400
    /\ batches = l.pre
    /\ Len(movements) = l.mark
    /\ \A k \in DOMAIN records : records[k].ref # l.call
    /\ l.site = "requisition" => requisition.items[l.item].status = "Pending"

\* C9: reconciliation with no drift is a no-op -- an audit whose actualCount
\* equals the sum of quantityRemaining over the medicine's eligible batches
\* answers at once, writes no ledger entry and leaves every batch (quantity
\* and status) as it was.
C9_NoDriftNoOp ==
  LET l == local[1] IN
  (/\ l.site = "audit"
   /\ l.quantity = TotalIn(l.pre, EligibleIn(l.pre, l.medicine, l.at))) =>
    /\ pc[1] = "idle"
    /\ batches = l.pre
    /\ Len(movements) = l.mark

\* C9 witness: an audit of a medicine with stock, counting exactly the
\* recorded total, has been answered.
C9_Witness ==
  /\ Ended(1)
  /\ local[1].site = "audit"
  /\ local[1].quantity > 0
  /\ Cardinality(EligibleIn(local[1].pre, local[1].medicine, local[1].at)) = 2
  /\ local[1].quantity =
       TotalIn(local[1].pre, EligibleIn(local[1].pre, local[1].medicine, local[1].at))

\* C10: reconciliation matches the physical count -- after an audit run in
\* isolation with actualCount >= 0 for a medicine with at least one eligible
\* batch, the quantityRemaining of the medicine's active, non-expired batches
\* sums to actualCount.
C10_ReconcileMatchesCount ==
  LET l == local[1] IN
  (/\ Ended(1)
   /\ l.site = "audit"
   /\ l.quantity >= 0
   /\ EligibleIn(l.pre, l.medicine, l.at) # {}) =>
    TotalIn(batches, {i \in DOMAIN batches : /\ batches[i].medicine = l.medicine
                                             /\ batches[i].status = "active"
                                             /\ batches[i].expiryDate > l.at})
      = l.quantity

\* The drift an audit by process 1 found: counted minus recorded total.
Drift1 == local[1].quantity - TotalIn(local[1].pre, Eligible1)

\* The audit of process 1 found a shrinkage smaller than what the
\* oldest-expiry eligible batch holds (whichever of equal expiry that is).
Shrinkage1 ==
  /\ local[1].site = "audit"
  /\ Drift1 < 0
  /\ Eligible1 # {}
  /\ \A j \in Earliest1 : 0 - Drift1 < local[1].pre[j].quantityRemaining

C12_NoBatchToAdjust ==
  LET l == local[1] IN
  (/\ Ended(1)
   /\ l.site = "audit"
   /\ l.quantity > 0
   /\ Eligible1 = {}) =>
    /\ l.code >= 400
    /\ batches = l.pre
    /\ Len(movements) = l.mark

\* The last request of process 1 was a receipt that was answered 201.
Received1 ==
  /\ Ended(1)
  /\ local[1].site = "receive"
  /\ local[1].code = 201

\* C13: Receive always creates a fresh batch -- every successful receipt adds
\* exactly one batch with quantityRemaining = quantityReceived = the received
\* quantity and status 'active', leaves every existing batch as it was, and
\* appends exactly one IN entry of that quantity referencing the new batch.
C13_ReceiveFreshBatch ==
  LET l == local[1]
      n == Len(l.pre) + 1
      mv == NewMoves(1) IN
  Received1 =>
    /\ Len(batches) = n
    /\ \A i \in DOMAIN l.pre : batches[i] = l.pre[i]
    /\ batches[n].medicine = l.medicine
    /\ batches[n].quantityReceived = l.quantity
    /\ batches[n].quantityRemaining = l.quantity
    /\ batches[n].status = "active"
    /\ Len(mv) = 1
    /\ mv[1].type = "IN"
    /\ mv[1].batch = n
    /\ mv[1].quantity = l.quantity

\* C14: Receive validates before writing -- a receipt of a quantity <= 0
\* fails with a validation error and leaves the store as it was: no batch is
\* created and no ledger entry is written.
C14_ReceiveValidates ==
  LET l == local[1] IN
  (Ended(1) /\ l.site = "receive" /\ l.quantity <= 0) =>
    /\ l.code >= 400
    /\ batches = l.pre
    /\ Len(movements) = l.mark

\* C15: the ledger is append-only -- every step of every operation keeps
\* each existing ledger entry in place and unchanged; operations only add
\* entries at the end.
C15_LedgerAppendOnly ==
  [][/\ Len(movements') >= Len(movements)
     /\ \A k \in DOMAIN movements : movements'[k] = movements[k]]_vars

\* C15 witness: the ledger has grown by an allocation and by an audit on top
\* of the receipts.
C15_Witness ==
  /\ Quiet
  /\ \E j, k \in DOMAIN movements :
       /\ j < k
       /\ movements[j].type = "OUT"
       /\ movements[k].type = "ADJUSTMENT"
       /\ movements[1].type = "IN"

\* C16: every ledger entry in every reachable state has quantity > 0.
C16_LedgerQuantityPositive ==
  \A k \in DOMAIN movements : movements[k].quantity > 0

\* C17: status tracks quantity -- in every reachable state, concurrent
\* allocations from stale reads included, a batch is 'depleted' if and only
\* if its quantityRemaining is 0.
C17_StatusTracksQuantity ==
  \A i \in DOMAIN batches :
    batches[i].status = "depleted" <=> batches[i].quantityRemaining = 0

\* C18: remaining quantity only goes down outside reconciliation -- across
\* any interleaving of allocations and receipts (no audit), no step raises
\* the quantityRemaining of an existing batch.
C18_RemainingMonotone ==
  [][\A i \in DOMAIN batches :
       batches'[i].quantityRemaining <= batches[i].quantityRemaining]_vars

C20_ReconcileNoClobber ==
  \A p \in Procs : \A q \in Procs \ {p} :
    (/\ local[p].site = "audit"
     /\ local[q].site \in AllocSites
     /\ local[q].medicine = local[p].medicine) =>
      /\ pc[p] = "auditSave" =>
           batches[local[p].docs[1].id].quantityRemaining
             = local[p].docs[1].quantityRemaining
      /\ (Quiet /\ local[p].moves = 1 /\ local[q].outcome # "error") =>
           \A k \in DOMAIN movements :
             LET b == movements[k].batch
                 left == batches[b].quantityReceived - LedgerRemoved(b) IN
             (movements[k].ref = local[p].call /\ left >= 0)
               => batches[b].quantityRemaining = left

\* C21: only eligible batches are deducted -- an allocation run in isolation
\* changes only batches that, when the call read them, belonged to the
\* requested medicine, were 'active', held more than 0 and expired later
\* than the time of the read; every other batch keeps quantity and status.
C21_OnlyEligibleDeducted ==
  Allocating1 =>
    \A i \in DOMAIN local[1].pre :
      i \notin Eligible1 => batches[i] = local[1].pre[i]

\* C21 witness: an allocation has deducted stock while a batch of the same
\* medicine that still holds stock, its expiry date passed, was left alone.
C21_Witness ==
  /\ Allocated1
  /\ Changed(1) # {}
  /\ \E i \in DOMAIN local[1].pre :
       /\ local[1].pre[i].medicine = local[1].medicine
       /\ local[1].pre[i].quantityRemaining > 0
       /\ local[1].pre[i].expiryDate < local[1].at

\* C22: deterministic tie-break -- of two eligible batches with equal expiry
\* dates an allocation deducts from the one created later only after it has
\* emptied the one created first.
C22_TieBreakByCreation ==
  Allocating1 =>
    \A i, j \in Eligible1 :
      (/\ i < j
       /\ local[1].pre[i].expiryDate = local[1].pre[j].expiryDate
       /\ j \in Changed(1))
        => batches[i].quantityRemaining = 0

\* The eligible batches an expiry-ordered allocation reaches before batch i
\* (earlier expiry, or equal expiry and created earlier).
Ahead1(i) ==
  {j \in Eligible1 :
     \/ local[1].pre[j].expiryDate < local[1].pre[i].expiryDate
     \/ /\ local[1].pre[j].expiryDate = local[1].pre[i].expiryDate
        /\ j < i}

\* What the allocation of the quantity the request of process 1 asked for
\* takes from batch i: what is left of the request after the batches ahead,
\* capped by the batch; nothing for a request of a quantity <= 0.
Share1(i) ==
  LET asked == IF local[1].quantity > 0 THEN local[1].quantity ELSE 0
      left == asked - TotalIn(local[1].pre, Ahead1(i)) IN
  IF i \notin Eligible1 \/ left <= 0 THEN 0
  ELSE IF left < local[1].pre[i].quantityRemaining THEN left
  ELSE local[1].pre[i].quantityRemaining

\* C23: one allocation algorithm at all three call sites -- the result of an
\* allocation run in isolation depends only on the medicine, the requested
\* quantity and the batch store, not on the site: at each site the batches
\* end with the same quantities and statuses and the OUT entries are the
\* same sequence of (batch, quantity), those of the expiry-ordered
\* allocation of the requested quantity (a batch whose expiry date passes
\* during the call may be saved as 'expired').
C23_OneAlgorithm ==
  LET l == local[1]
      mv == NewMoves(1) IN
  Allocated1 =>
    /\ \A i \in DOMAIN l.pre :
         /\ batches[i].quantityRemaining = l.pre[i].quantityRemaining - Share1(i)
         /\ IF Share1(i) > 0 /\ Share1(i) = l.pre[i].quantityRemaining
            THEN batches[i].status = "depleted"
            ELSE \/ batches[i].status = l.pre[i].status
                 \/ /\ Share1(i) > 0
                    /\ l.pre[i].expiryDate < now
                    /\ batches[i].status = "expired"
    /\ \A k \in DOMAIN mv :
         /\ mv[k].type = "OUT"
         /\ mv[k].quantity = Share1(mv[k].batch)
         /\ mv[k].quantity > 0
    /\ \A i \in DOMAIN l.pre : Share1(i) > 0 => \E k \in DOMAIN mv : mv[k].batch = i
    /\ \A j, k \in DOMAIN mv : j < k => mv[j].batch \in Ahead1(mv[k].batch)

\* The audit of process 1 found a shrinkage at least as large as what the
\* oldest-expiry eligible batch holds (whichever of equal expiry that is).
Overdrawn1 ==
  /\ local[1].site = "audit"
  /\ Drift1 < 0
  /\ Eligible1 # {}
  /\ \A j \in Earliest1 : 0 - Drift1 >= local[1].pre[j].quantityRemaining

\* C24: reconcile clamps at zero -- an audit run in isolation that finds a
\* negative difference d with |d| >= the oldest-expiry eligible batch's
\* quantity leaves that batch at exactly 0 with status 'depleted' and
\* records exactly one ADJUSTMENT entry of quantity |d|.
C24_ReconcileClampsAtZero ==
  LET mv == NewMoves(1) IN
  (Ended(1) /\ Overdrawn1) =>
    \E b \in Earliest1 :
      /\ batches[b].quantityRemaining = 0
      /\ batches[b].status = "depleted"
      /\ Len(mv) = 1
      /\ mv[1].type = "ADJUSTMENT"
      /\ mv[1].batch = b
      /\ mv[1].quantity = 0 - Drift1

\* C24 witness: an audit counted 0 where two batches held stock; the older
\* one has been emptied by a difference larger than its quantity.
C24_Witness ==
  /\ Ended(1)
  /\ Overdrawn1
  /\ Cardinality(Eligible1) = 2
  /\ \E b \in Earliest1 : /\ 0 - Drift1 > local[1].pre[b].quantityRemaining
                          /\ batches[b].status = "depleted"

OutTotal(ref) ==
  SumSeq([k \in DOMAIN movements |->
            IF movements[k].type = "OUT" /\ movements[k].ref = ref
            THEN movements[k].quantity ELSE 0])

\* Before the request of process 1 started, stock had been issued for the
\* requisition item it addresses.
IssuedBefore1 ==
  \E k \in 1..local[1].mark :
    /\ movements[k].type = "OUT"
    /\ movements[k].medicine = local[1].medicine
    /\ movements[k].reason = "Issued via requisition"

\* C26: requisition issuance is not repeated -- a request that issues an item
\* the stored requisition already holds as 'Issued', with stock deducted and
\* OUT entries written for it, deducts no further stock.
C26_IssuanceNotRepeated ==
  [][(/\ pc[1] = "reqSave"
      /\ requisition.items[local[1].item].status = "Issued"
      /\ IssuedBefore1)
       => batches' = batches]_vars

\* C27: state unchanged on a failed issuance -- when updateRequisitionItem
\* has answered 'Insufficient stock', the request has changed no batch and
\* written no ledger entry.
C27_FailedIssuanceNoChange ==
  LET l == local[1] IN
  (Ended(1) /\ l.site = "requisition" /\ l.outcome = "insufficient") =>
    /\ batches = l.pre
    /\ Len(movements) = l.mark

\* C28: the dispensing record agrees with the ledger -- once the request has
\* been answered, the quantity on every persisted dispensing record with a
\* known medicine equals the sum of the OUT quantities written for that
\* dispensing.
C28_RecordAgreesWithLedger ==
  Quiet =>
    \A k \in DOMAIN records :
      (records[k].site = "dispensing" /\ records[k].medicine \in Medicines)
        => records[k].quantity = OutTotal(records[k].ref)

\* C29: operations are confined to their medicine -- an allocation or an
\* audit for medicine M, run in isolation, changes neither quantity nor
\* status of a batch of another medicine and writes only ledger entries
\* whose medicine is M and whose batch is a batch of M.
C29_ConfinedToMedicine ==
  LET l == local[1]
      mv == NewMoves(1) IN
  (Allocating1 \/ l.site = "audit") =>
    /\ \A i \in DOMAIN l.pre :
         l.pre[i].medicine # l.medicine => batches[i] = l.pre[i]
    /\ \A k \in DOMAIN mv :
         /\ mv[k].medicine = l.medicine
         /\ batches[mv[k].batch].medicine = l.medicine

\* C29 witness: an allocation has deducted stock of its medicine while
\* another medicine had an eligible batch as well.
C29_Witness ==
  /\ Allocated1
  /\ Changed(1) # {}
  /\ Len(NewMoves(1)) > 0
  /\ \E i \in DOMAIN local[1].pre :
       /\ local[1].pre[i].medicine # local[1].medicine
       /\ local[1].pre[i].status = "active"
       /\ local[1].pre[i].quantityRemaining > 0

\* C30: completed requisitions are never cancelled -- no step of
\* cancelRequisition, updateRequisitionItem or completeRequisition takes a
\* requisition whose status is 'Completed' to 'Cancelled'.
C30_CompletedNeverCancelled ==
  [][requisition.status = "Completed" => requisition'.status # "Cancelled"]_vars

====
